---------------------------- MODULE Spec2Model ----------------------------
(***************************************************************************)
(* Model of DrAI_pytorch.ipynb: the padding of a batch of visit sequences, *)
(* the two-layer GRU forward pass with its masked loss, and the training   *)
(* cell that drives them.                                                  *)
(*                                                                         *)
(* Conventions.  Python indices are 0-based, TLA+ sequences are 1-based:   *)
(* timestep t of the code is index t+1 here, sample idx is index idx+1,    *)
(* and code c (0 .. vocab-1) is column c+1 of a multi-hot vector.          *)
(* A tensor is a nested sequence, outermost dimension first.               *)
(***************************************************************************)
EXTENDS Integers, Sequences, FiniteSets, TLC

VARIABLES
  pc,        \* position in the cell being run
  batchX,    \* the batch of visit sequences handed to padding (seqs)
  batchY,    \* the batch of label sequences handed to padding (labels)
  x,         \* padded multi-hot inputs  [maxlen][n_samples][vocab]
  y,         \* padded multi-hot labels  [maxlen][n_samples][n_classes]
  lengths,   \* per-sample number of valid timesteps
  mask,      \* [maxlen][n_samples], 1 on valid timesteps
  h,         \* the notebook-level name h that every call of model(...) passes
  model,     \* build_EHRNN instance: W_emb, b_emb, W_out, b_out, training
  draw,      \* what the last forward call drew at random
  trace,     \* what the last forward call computed, intermediate tensors included
  outputs,   \* yhat returned by the last forward call
  hidden,    \* hidden_state returned by the last forward call
  cost,      \* cost returned by the last forward call
  train,     \* the training set: <<sequences, labels>>
  valid,     \* the validation set: <<sequences, labels>>
  e,         \* number of epochs started
  order,     \* the batch indices of the running epoch still to come
  index,     \* the batch index being processed
  iteration, \* number of training steps completed
  vorder,    \* the validation batch indices still to come
  losses,    \* the validation costs of the running validation
  optimizer, \* the Adadelta instance: the parameters it was given
  grad,      \* the .grad of the optimizer's parameters: which backward
             \* calls it sums, and whether it was clipped
  gates,     \* identities of the gate parameters the last forward call used
  nextId,    \* next unused parameter identity
  count,     \* how often each step of the loop has run
  processed  \* how often each batch index was taken in the running epoch

batchVars == <<batchX, batchY>>
padVars == <<x, y, lengths, mask>>
fwdVars == <<draw, trace, outputs, hidden, cost>>
loopVars == <<e, order, index, iteration, vorder, losses>>
optVars == <<optimizer, grad>>
idVars == <<gates, nextId>>
logVars == <<count, processed>>
dataVars == <<train, valid>>

vars == <<pc, batchVars, padVars, h, model, fwdVars, dataVars, loopVars,
          optVars, idVars, logVars>>

---------------------------------------------------------------------------
(* Sizes.  The notebook uses a vocabulary of 4894 codes; the model keeps   *)
(* the structure and shrinks the sizes.                                    *)

vocab == 2          \* padding(..., 4894, 4894): number of input codes
MaxVisits == 3      \* longest patient record drawn as an input
hiddenDimSize == 1  \* build_EHRNN(4894, 200, 100, 200, 4894, ...): hidden size
batchSize == 2      \* batchSize = 100
Scale == 4          \* fixed-point resolution of a float
ExpMax == 2         \* exponents beyond +-ExpMax saturate in Exp

n_classes == vocab          \* the notebook passes 4894 for both
inputDimSize == vocab       \* build_EHRNN(4894, ...)
numClass == vocab           \* build_EHRNN(..., 4894, ...)
embSize == hiddenDimSize    \* both 200 in the notebook

Codes == 0 .. (vocab - 1)

---------------------------------------------------------------------------
(* Helpers on integers and sequences.                                      *)

Min(a, b) == IF a <= b THEN a ELSE b

Max(a, b) == IF a >= b THEN a ELSE b

SetMin(S) == CHOOSE m \in S : \A k \in S : m <= k

RECURSIVE SetToSeq(_)
SetToSeq(S) == IF S = {} THEN <<>>
               ELSE LET m == SetMin(S) IN <<m>> \o SetToSeq(S \ {m})

Range(s) == {s[i] : i \in 1 .. Len(s)}

RECURSIVE SeqMax(_)
\* np.max of a non-empty array
SeqMax(s) == IF Len(s) = 1 THEN s[1] ELSE Max(s[1], SeqMax(Tail(s)))

\* Number of elements the Python slice a[:k] takes from a sequence of n:
\* a negative k counts from the end.
SliceEnd(k, n) == IF k >= 0 THEN Min(k, n) ELSE Max(n + k, 0)

---------------------------------------------------------------------------
(* padding(seqs, labels, vocab, n_classes)                                 *)

\* The lengths without the "- 1": every visit of a record counted
PadLengths_AllVisits(seqs) == [i \in 1 .. Len(seqs) |-> Len(seqs[i])]

\* lengths = np.array([len(seq) for seq in seqs]) - 1
PadLengths(seqs) == [i \in 1 .. Len(seqs) |-> Len(seqs[i]) - 1]

\* for xvec, subseq in zip(x[:,idx,:], seq[:-1]): xvec[subseq] = 1.
\* zip stops at the shorter of the maxlen rows and the len(seq)-1 visits.
ScatterAllButLast(seqs, maxlen, width) ==
  [t \in 1 .. maxlen |->
    [i \in 1 .. Len(seqs) |->
      [c \in 1 .. width |->
        IF t <= SliceEnd(-1, Len(seqs[i])) /\ (c - 1) \in Range(seqs[i][t])
        THEN 1 ELSE 0]]]

\* The labels scattered without the shift: label[0:] in place of label[1:]
ScatterAllButFirst_Unshifted(labels, maxlen, width) ==
  [t \in 1 .. maxlen |->
    [i \in 1 .. Len(labels) |->
      [c \in 1 .. width |->
        IF t <= Len(labels[i]) /\ (c - 1) \in Range(labels[i][t])
        THEN 1 ELSE 0]]]

\* for yvec, subseq in zip(y[:,idx,:], label[1:]): yvec[subseq] = 1.
ScatterAllButFirst(labels, maxlen, width) ==
  [t \in 1 .. maxlen |->
    [i \in 1 .. Len(labels) |->
      [c \in 1 .. width |->
        IF t + 1 <= Len(labels[i]) /\ (c - 1) \in Range(labels[i][t + 1])
        THEN 1 ELSE 0]]]

\* mask[:lengths[idx], idx] = 1.
PadMask(lens, maxlen) ==
  [t \in 1 .. maxlen |->
    [i \in 1 .. Len(lens) |->
      IF t <= SliceEnd(lens[i], maxlen) THEN 1 ELSE 0]]

padding(seqs, labels, voc, ncls) ==
  LET lens == PadLengths(seqs)
      maxlen == SeqMax(lens)
  IN [x |-> ScatterAllButLast(seqs, maxlen, voc),
      y |-> ScatterAllButFirst(labels, maxlen, ncls),
      lengths |-> lens,
      mask |-> PadMask(lens, maxlen)]

---------------------------------------------------------------------------
(* Tensor values.  A float is modelled in fixed point: the integer v       *)
(* stands for v / Scale.  Multi-hot inputs, labels and masks stay the      *)
(* integers 0 and 1.  The transcendental functions are their usual         *)
(* piecewise-linear stand-ins (hard sigmoid, hard tanh, a power of two for *)
(* exp, a linearly interpolated logarithm); softmax probabilities are      *)
(* exact fractions <<numerator, denominator>> in lowest terms.             *)

\* Whether dropout pattern keep retains element (t, b, j)
DropKeeps(keep, t, b, j) ==
  IF keep = "all" THEN TRUE
  ELSE IF keep = "none" THEN FALSE
  ELSE (t + b + j) % 2 = 0

Clamp(v, lo, hi) == IF v < lo THEN lo ELSE IF v > hi THEN hi ELSE v

RECURSIVE SumSeq(_)
SumSeq(s) == IF Len(s) = 0 THEN 0 ELSE s[1] + SumSeq(Tail(s))

\* The sequence <<F(1), ..., F(n)>>, built element by element
Tab(n, F(_)) ==
  LET RECURSIVE go(_)
      go(k) == IF k <= 0 THEN <<>> ELSE Append(go(k - 1), F(k))
  IN go(n)

RECURSIVE Gcd(_, _)
Gcd(a, b) == IF b = 0 THEN a ELSE Gcd(b, a % b)

RECURSIVE Pow2(_)
Pow2(k) == IF k <= 0 THEN 1 ELSE 2 * Pow2(k - 1)

RECURSIVE FloorLog2(_)
FloorLog2(k) == IF k <= 1 THEN 0 ELSE 1 + FloorLog2(k \div 2)

\* torch.sigmoid: 1/2 + v/4 around 0, saturating at 0 and 1
Sigmoid(v) == Clamp((2 * Scale + v) \div 4, 0, Scale)

\* torch.tanh: v around 0, saturating at -1 and 1
Tanh(v) == Clamp(v, 0 - Scale, Scale)

\* exp inside softmax, up to the common factor the normalisation cancels
Exp(v) == Pow2(Clamp(v \div Scale, 0 - ExpMax, ExpMax) + ExpMax)

\* ln k for an integer k >= 1, in fixed point
LnFix(k) ==
  LET ex == FloorLog2(k)
      log2q == 16 * ex + (16 * (k - Pow2(ex))) \div Pow2(ex)
  IN (693 * Scale * log2q) \div 16000

\* -log(logEps) for logEps = 1e-8
NegLogEps == (1842 * Scale) \div 100

Frac(n, d) == LET g == Gcd(n, d) IN <<n \div g, d \div g>>

FracAdd(p, q) == Frac(p[1] * q[2] + q[1] * p[2], p[2] * q[2])

RECURSIVE FracSum(_)
FracSum(s) == IF Len(s) = 0 THEN <<0, 1>> ELSE FracAdd(s[1], FracSum(Tail(s)))

\* -torch.log(p + logEps) for a probability p: in float32 p + 1e-8 is
\* 1e-8 when p = 0 and rounds to p otherwise
NegLog(p) == IF p[1] = 0 THEN NegLogEps ELSE LnFix(p[2]) - LnFix(p[1])

\* -torch.log(1. - p + logEps)
NegLog1m(p) == NegLog(<<p[2] - p[1], p[2]>>)

Zeros(rows, cols) == Tab(rows, LAMBDA i : Tab(cols, LAMBDA j : 0))

\* A matrix of the given shape filled from one drawn value, alternating in
\* sign along a row
Fill(rows, cols, a) ==
  Tab(rows, LAMBDA i : Tab(cols, LAMBDA j : IF j % 2 = 1 THEN a ELSE 0 - a))

\* torch.matmul(A, W) for A [n, k] and W [k, m]
MatMul(A, W) ==
  Tab(Len(A), LAMBDA i :
    Tab(Len(W[1]), LAMBDA j :
      SumSeq(Tab(Len(W), LAMBDA k : A[i][k] * W[k][j])) \div Scale))

\* Row i of a [n, k] operand broadcast against the first dimension
BRow(A, i) == IF Len(A) = 1 THEN A[1] ELSE A[i]

BRows(A, B) == IF Len(A) = 1 THEN Len(B) ELSE Len(A)

\* Whether two first dimensions broadcast together
Broadcastable(n, m) == n = m \/ n = 1 \/ m = 1

Add(A, B) ==
  Tab(BRows(A, B), LAMBDA i :
    Tab(Len(A[1]), LAMBDA j : BRow(A, i)[j] + BRow(B, i)[j]))

Mul(A, B) ==
  Tab(BRows(A, B), LAMBDA i :
    Tab(Len(A[1]), LAMBDA j : (BRow(A, i)[j] * BRow(B, i)[j]) \div Scale))

AddBias(A, b) == Tab(Len(A), LAMBDA i : Tab(Len(b), LAMBDA j : A[i][j] + b[j]))

OneMinus(A) == Tab(Len(A), LAMBDA i : Tab(Len(A[1]), LAMBDA j : Scale - A[i][j]))

SigmoidM(A) == Tab(Len(A), LAMBDA i : Tab(Len(A[1]), LAMBDA j : Sigmoid(A[i][j])))

TanhM(A) == Tab(Len(A), LAMBDA i : Tab(Len(A[1]), LAMBDA j : Tanh(A[i][j])))

ToFix(A) == Tab(Len(A), LAMBDA i : Tab(Len(A[1]), LAMBDA j : A[i][j] * Scale))

---------------------------------------------------------------------------
(* class EHRNN: one GRU layer                                              *)

\* EHRNN.__init__: the nine gate parameters, W_* and U_* drawn by
\* torch.randn (d holds the draw), b_* zero
EHRNN(d) ==
  [W_z |-> Fill(embSize, hiddenDimSize, d.wz),
   W_r |-> Fill(embSize, hiddenDimSize, d.wr),
   W_h |-> Fill(embSize, hiddenDimSize, d.wh),
   U_z |-> Fill(hiddenDimSize, hiddenDimSize, d.uz),
   U_r |-> Fill(hiddenDimSize, hiddenDimSize, d.ur),
   U_h |-> Fill(hiddenDimSize, hiddenDimSize, d.uh),
   b_z |-> Tab(hiddenDimSize, LAMBDA j : 0),
   b_r |-> Tab(hiddenDimSize, LAMBDA j : 0),
   b_h |-> Tab(hiddenDimSize, LAMBDA j : 0)]

\* EHRNN.forward(emb, h)
EHRNN_forward(rnn, emb, hprev) ==
  LET z == SigmoidM(AddBias(Add(MatMul(emb, rnn.W_z), MatMul(hprev, rnn.U_z)), rnn.b_z))
      r == SigmoidM(AddBias(Add(MatMul(emb, rnn.W_r), MatMul(hprev, rnn.U_r)), rnn.b_r))
      h_tilde == TanhM(AddBias(Add(MatMul(emb, rnn.W_h),
                                   MatMul(Mul(r, hprev), rnn.U_h)), rnn.b_h))
  IN Add(Mul(z, hprev), Mul(OneMinus(z), h_tilde))

---------------------------------------------------------------------------
(* class build_EHRNN: embedding, two GRU layers, output head, loss         *)

\* build_EHRNN.init_hidden
init_hidden == Zeros(batchSize, hiddenDimSize)

RECURSIVE RunLayer(_, _, _, _)
\* for i, seq in enumerate(input_values): h = rnn(seq, h); hidden_state.append(h)
RunLayer(rnn, input_values, hprev, t) ==
  IF t > Len(input_values) THEN <<>>
  ELSE LET hnew == EHRNN_forward(rnn, input_values[t], hprev)
       IN <<hnew>> \o RunLayer(rnn, input_values, hnew, t + 1)

\* The recurrence started from the caller's h: the layer loop without its
\* h = self.init_hidden()
LayerStart_FromArgument(hArg) == hArg

\* h = self.init_hidden().cuda(): the state the recurrence of a layer starts
\* from; hArg is the h the caller passed to forward
LayerStart(hArg) == init_hidden

\* self.dropout: in train mode an element is zeroed or kept and doubled
\* (p = 0.5) as drawn; in eval mode the identity.  keep is the drawn pattern.
Dropout(training, keep, hs) ==
  IF ~training THEN hs
  ELSE Tab(Len(hs), LAMBDA t :
         Tab(Len(hs[t]), LAMBDA b :
           Tab(Len(hs[t][b]), LAMBDA j :
             IF DropKeeps(keep, t, b, j) THEN 2 * hs[t][b][j] ELSE 0)))

\* The layer loop handing on the last hidden state alone: hidden_state = h
\* in place of torch.stack(hidden_state)
Layer_LastStepOnly(training, d, keep, input_values, hArg) ==
  LET h0 == LayerStart(hArg)
      hs == RunLayer(EHRNN(d), input_values, h0, 1)
  IN [h0 |-> h0, hs |-> hs,
      out |-> Dropout(training, keep, <<hs[Len(hs)]>>)]

\* One pass of the layer loop of forward: the hidden states of a layer
\* before and after dropout
Layer(training, d, keep, input_values, hArg) ==
  LET h0 == LayerStart(hArg)
      hs == RunLayer(EHRNN(d), input_values, h0, 1)
  IN [h0 |-> h0, hs |-> hs, out |-> Dropout(training, keep, hs)]

\* F.softmax(y_linear, dim=1) on a [time, batch, class] tensor
Softmax(y_linear) ==
  Tab(Len(y_linear), LAMBDA t :
    Tab(Len(y_linear[t]), LAMBDA b :
      Tab(Len(y_linear[t][b]), LAMBDA c :
        Frac(Exp(y_linear[t][b][c]),
             SumSeq(Tab(Len(y_linear[t]), LAMBDA b2 : Exp(y_linear[t][b2][c])))))))

\* yhat * mask[:, :, None]
ApplyMask(yhat, msk) ==
  Tab(Len(yhat), LAMBDA t :
    Tab(BRows(yhat[t], msk[t]), LAMBDA b :
      Tab(Len(yhat[t][1]), LAMBDA c :
        IF BRow(msk[t], b) = 1 THEN BRow(yhat[t], b)[c] ELSE <<0, 1>>)))

\* -(y * log(yhat + logEps) + (1 - y) * log(1 - yhat + logEps)), element-wise
CrossEntropy(yy, yhat) ==
  Tab(Len(yhat), LAMBDA t :
    Tab(BRows(yy[t], yhat[t]), LAMBDA b :
      Tab(Len(yhat[t][1]), LAMBDA c :
        BRow(yy[t], b)[c] * NegLog(BRow(yhat[t], b)[c])
          + (1 - BRow(yy[t], b)[c]) * NegLog1m(BRow(yhat[t], b)[c]))))

\* A float quotient num / den for num >= 0, in millionths
Quotient(num, den) ==
  IF den # 0 THEN [kind |-> "finite", micro |-> (num * 1000000) \div (Scale * den)]
  ELSE IF num = 0 THEN [kind |-> "nan", micro |-> 0]
  ELSE [kind |-> "inf", micro |-> 0]

\* torch.sum(torch.sum(cross_entropy, dim=0), dim=1) / FloatTensor(lengths)
PredictionLoss(ce, lens) ==
  Tab(BRows(ce[1], lens), LAMBDA b :
    Quotient(SumSeq(Tab(Len(ce), LAMBDA t : SumSeq(BRow(ce[t], b)))),
             BRow(lens, b)))

\* 0.000001 * (W_out ** 2).sum(), in millionths
Regularizer(W_out) ==
  SumSeq(Tab(Len(W_out), LAMBDA j :
           SumSeq(Tab(Len(W_out[j]), LAMBDA c : W_out[j][c] * W_out[j][c]))))
    \div (Scale * Scale)

\* torch.mean(prediction_loss) + regularizer
Cost(pl, reg) ==
  IF \E b \in 1 .. Len(pl) : pl[b].kind = "nan" THEN [kind |-> "nan", micro |-> 0]
  ELSE IF \E b \in 1 .. Len(pl) : pl[b].kind = "inf" THEN [kind |-> "inf", micro |-> 0]
  ELSE [kind |-> "finite",
        micro |-> SumSeq(Tab(Len(pl), LAMBDA b : pl[b].micro)) \div Len(pl) + reg]

\* torch.matmul(hidden_state, self.W_out) + self.b_out
OutputLayer(self, hidden_state) ==
  Tab(Len(hidden_state), LAMBDA t : AddBias(MatMul(hidden_state[t], self.W_out), self.b_out))

\* Whether forward raises: torch.stack of an empty list, or operands whose
\* batch dimensions do not broadcast
ForwardRaises(xx) ==
  \/ Len(xx) = 0
  \/ ~Broadcastable(Len(xx[1]), batchSize)

\* self.emb = torch.tanh(torch.matmul(x, self.W_emb) + self.b_emb)
Embed(self, xx) ==
  Tab(Len(xx), LAMBDA t :
    TanhM(AddBias(MatMul(ToFix(xx[t]), self.W_emb), self.b_emb)))

\* The end of forward: the cross-entropy of the masked yhat against y, the
\* per-sample loss, the cost; what the call computed is kept as a record
forward_loss(self, yy, lens, emb, layer1, layer2, yhat) ==
  [raised |-> FALSE,
   emb |-> emb,
   h0 |-> <<layer1.h0, layer2.h0>>,
   hs |-> <<layer1.hs, layer2.hs>>,
   yhat |-> yhat,
   hidden_state |-> layer2.out,
   cost |-> Cost(PredictionLoss(CrossEntropy(yy, yhat), lens),
                 Regularizer(self.W_out))]

\* y_linear, the softmax and the mask, on the output of the second layer
forward_output(self, yy, lens, msk, emb, layer1, layer2) ==
  forward_loss(self, yy, lens, emb, layer1, layer2,
               ApplyMask(Softmax(OutputLayer(self, layer2.out)), msk))

\* The pass i = 1 of the layer loop: its input is the output of pass i = 0
forward_layer2(self, training, drawn, yy, hArg, lens, msk, emb, layer1) ==
  forward_output(self, yy, lens, msk, emb, layer1,
                 Layer(training, drawn.rnn[2], drawn.drop[2], layer1.out, hArg))

\* The pass i = 0 of the layer loop: its input is self.emb
forward_layer1(self, training, drawn, yy, hArg, lens, msk, emb) ==
  forward_layer2(self, training, drawn, yy, hArg, lens, msk, emb,
                 Layer(training, drawn.rnn[1], drawn.drop[1], emb, hArg))

\* build_EHRNN.forward(x, y, h, lengths, mask).  training is the module's
\* mode; drawn holds what the call draws at random: the gate weights of the
\* EHRNN built for each layer and the dropout pattern of each layer.
forward(self, training, drawn, xx, yy, hArg, lens, msk) ==
  IF ForwardRaises(xx) THEN [raised |-> TRUE]
  ELSE forward_layer1(self, training, drawn, yy, hArg, lens, msk, Embed(self, xx))

---------------------------------------------------------------------------
(* Inputs of padding: patient records.  A visit is a list of distinct      *)
(* codes; a record has at least one visit; a patient's label record has    *)
(* one label list per visit of the patient's record.                       *)

Visits == {SetToSeq(S) : S \in SUBSET Codes}

PatientSeqs == UNION {[1 .. L -> Visits] : L \in 1 .. MaxVisits}

\* Label records of a patient: the same visits, the visits with every code
\* moved to the next code, or the visits in reverse order.
ShiftVisit(v) == SetToSeq({(c + 1) % vocab : c \in Range(v)})

\* The k-th label record of a patient record.
LabelRecord(seq, k) ==
  IF k = 1 THEN seq
  ELSE IF k = 2 THEN [t \in 1 .. Len(seq) |-> ShiftVisit(seq[t])]
  ELSE [t \in 1 .. Len(seq) |-> seq[Len(seq) + 1 - t]]

LabelBatch(seqs, k) == [i \in 1 .. Len(seqs) |-> LabelRecord(seqs[i], k)]

\* Two fixed records, the shortest and the longest, that share a batch with
\* the record under study so that maxlen varies independently of it.
ShortRecord == <<<<0>>>>

LongRecord == [t \in 1 .. MaxVisits |-> <<(t % vocab)>>]

Fillers == {ShortRecord, LongRecord}

PadBatches ==
  UNION { {<<s>>} \cup {<<s, f>> : f \in Fillers} \cup {<<f, s>> : f \in Fillers}
             : s \in PatientSeqs }

Empty == <<>>

NoForward ==
  /\ draw = Empty /\ trace = Empty /\ outputs = Empty /\ hidden = Empty
  /\ cost = Empty

NoPadding == x = Empty /\ y = Empty /\ lengths = Empty /\ mask = Empty

\* Parameter values of build_EHRNN: torch.randn at construction, whatever
\* the optimizer made of them later.  Columns differ so that the classes
\* get different logits.
ParamValues(a, b, c) ==
  [W_emb |-> [i \in 1 .. inputDimSize |-> [j \in 1 .. embSize |->
                 IF i % 2 = 1 THEN a ELSE 0 - a]],
   b_emb |-> [j \in 1 .. embSize |-> c],
   W_out |-> [i \in 1 .. hiddenDimSize |-> [j \in 1 .. numClass |->
                 IF j = 1 THEN b ELSE 0 - (b \div 2)]],
   b_out |-> [j \in 1 .. numClass |-> IF j = 1 THEN c ELSE 0]]

ParamChoices ==
  { ParamValues(Scale, Scale, 0),
    ParamValues(0 - Scale, 2 * Scale, Scale \div 2) }

WithMode(p, training) ==
  [W_emb |-> p.W_emb, b_emb |-> p.b_emb, W_out |-> p.W_out, b_out |-> p.b_out,
   training |-> training]

\* Gate weights one EHRNN() may draw
RnnDraws ==
  { [wz |-> Scale, wr |-> Scale, wh |-> Scale, uz |-> Scale, ur |-> Scale, uh |-> Scale],
    [wz |-> 0 - Scale, wr |-> Scale \div 2, wh |-> 2 * Scale,
     uz |-> Scale \div 2, ur |-> 0 - Scale, uh |-> 0 - Scale] }

\* Dropout patterns of the two layers one forward call may draw
DropDraws == {<<"all", "even">>, <<"even", "none">>}

Draws ==
  [rnn : {<<a, b>> \in RnnDraws \X RnnDraws : a # b}, drop : DropDraws]

NoLoop ==
  /\ train = Empty /\ valid = Empty
  /\ e = 0 /\ order = Empty /\ index = 0 /\ iteration = 0
  /\ vorder = Empty /\ losses = Empty
  /\ optimizer = Empty /\ grad = Empty
  /\ gates = Empty /\ nextId = 0
  /\ count = Empty /\ processed = Empty

restVars == <<dataVars, loopVars, optVars, idVars, logVars>>

\* Values of the notebook-level h: any [batchSize, hidden] tensor
HChoices == {Zeros(batchSize, hiddenDimSize), Fill(batchSize, hiddenDimSize, Scale)}

---------------------------------------------------------------------------
(* Padding alone, on every batch of one or two records                     *)

InitPadding ==
  /\ pc = "pad"
  /\ batchX \in PadBatches
  /\ \E k \in 1 .. 3 : batchY = LabelBatch(batchX, k)
  /\ NoPadding /\ NoForward /\ NoLoop
  /\ h = Empty /\ model = Empty

\* x, y, lengths, mask = padding(batchX, batchY, 4894, 4894)
Padding ==
  /\ pc = "pad"
  /\ LET r == padding(batchX, batchY, vocab, n_classes)
     IN /\ x' = r.x
        /\ y' = r.y
        /\ lengths' = r.lengths
        /\ mask' = r.mask
  /\ pc' = "padded"
  /\ UNCHANGED <<batchVars, h, model, fwdVars, restVars>>

NextPadding == Padding

SpecPadding == InitPadding /\ [][NextPadding]_vars

---------------------------------------------------------------------------
(* One call of the model on a padded batch                                 *)

TwoVisits == <<<<0>>, <<0, vocab - 1>>>>

ThreeVisits == <<<<vocab - 1>>, <<>>, <<0>>>>

RecordPool == {ShortRecord, TwoVisits, ThreeVisits, LongRecord}

InitForward ==
  /\ pc = "pad"
  /\ batchX \in [1 .. batchSize -> RecordPool]
  /\ \E k \in 1 .. 2 : batchY = LabelBatch(batchX, k)
  /\ NoPadding /\ NoForward /\ NoLoop
  /\ h \in HChoices
  /\ \E p \in ParamChoices, m \in BOOLEAN : model = WithMode(p, m)

\* outputs, hidden, cost = model(x, y, h, lengths, mask)
Forward ==
  /\ pc = "padded"
  /\ \E d \in Draws :
       /\ draw' = d
       /\ trace' = forward(model, model.training, d, x, y, h, lengths, mask)
  /\ IF trace'.raised
     THEN /\ pc' = "raised"
          /\ UNCHANGED <<outputs, hidden, cost>>
     ELSE /\ pc' = "done"
          /\ outputs' = trace'.yhat
          /\ hidden' = trace'.hidden_state
          /\ cost' = trace'.cost
  /\ UNCHANGED <<batchVars, padVars, h, model, restVars>>

NextForward == Padding \/ Forward

SpecForward == InitForward /\ [][NextForward]_vars

---------------------------------------------------------------------------
(* The training cell                                                       *)

max_epochs == 10     \* max_epochs = 10

ValidateEvery == 10  \* if iteration % 10 == 0

CeilDiv(a, b) == (a + b - 1) \div b

\* The number of batches without the "- 1": the last, partial batch kept
NumBatches_WithPartial(n) == CeilDiv(n, batchSize)

\* n_batches = int(np.ceil(float(len(train[0])) / float(batchSize))) - 1
NumBatches(n) == CeilDiv(n, batchSize) - 1

n_batches == NumBatches(Len(train[1]))

n_batches_valid == NumBatches(Len(valid[1]))

\* The Python slice s[a:b] for 0 <= a <= b
PySlice(s, a, b) ==
  LET lo == Min(a, Len(s))
      hi == Min(b, Len(s))
  IN Tab(hi - lo, LAMBDA k : s[lo + k])

\* data[:n*batchSize][i*batchSize:(i+1)*batchSize]
BatchOf(data, n, i) ==
  PySlice(PySlice(data, 0, n * batchSize), i * batchSize, (i + 1) * batchSize)

\* Indices drawn with replacement: random.choices in place of random.sample
Shuffles_WithReplacement(n) == [1 .. n -> 0 .. (n - 1)]

\* random.sample(range(n), n): the orders in which 0 .. n-1 may come
Shuffles(n) ==
  {s \in [1 .. n -> 0 .. (n - 1)] : \A i, j \in 1 .. n : s[i] = s[j] => i = j}

\* Identities of the parameters model.parameters() yields: the nn.Parameter
\* attributes W_emb, b_emb, W_out, b_out of build_EHRNN
ModelParams == 1 .. 4

\* Number of nn.Parameter objects one EHRNN() creates
GateParams == 9

\* model.train()
TrainMode == TRUE

\* model.eval()
EvalMode == FALSE

NoCount == [zero_grad |-> 0, forward |-> 0, backward |-> 0, clip |-> 0,
            step |-> 0, validation |-> 0]

Bump(c, f) == [c EXCEPT ![f] = c[f] + 1]

\* Records with at least two visits, as a data set holds them
DataPool == <<TwoVisits, LongRecord, ThreeVisits>>

DataSet(n, off) ==
  LET seqs == Tab(n, LAMBDA i : DataPool[((i + off) % Len(DataPool)) + 1])
  IN <<seqs, LabelBatch(seqs, 2)>>

TrainSizes == {batchSize - 1, batchSize + 1, 2 * batchSize + 1}

ValidSizes == {batchSize, batchSize + 1}

Init ==
  /\ pc = "epoch"
  /\ \E n \in TrainSizes : train = DataSet(n, 0)
  /\ \E n \in ValidSizes : valid = DataSet(n, 1)
  /\ \E p \in ParamChoices : model = WithMode(p, TrainMode)
  /\ optimizer = [params |-> ModelParams]
  /\ grad = [of |-> {}, clipped |-> FALSE]
  /\ h \in HChoices
  /\ batchX = Empty /\ batchY = Empty
  /\ NoPadding /\ NoForward
  /\ e = 0 /\ order = Empty /\ index = 0 /\ iteration = 0
  /\ vorder = Empty /\ losses = Empty
  /\ gates = {} /\ nextId = 5
  /\ count = NoCount
  /\ processed = Empty

\* for e in range(max_epochs): ... random.sample(range(n_batches), n_batches)
StartEpoch ==
  /\ pc = "epoch"
  /\ e < max_epochs
  /\ e' = e + 1
  /\ order' \in Shuffles(n_batches)
  /\ processed' = [i \in 0 .. (n_batches - 1) |-> 0]
  /\ pc' = "batch"
  /\ UNCHANGED <<batchVars, padVars, h, model, fwdVars, dataVars, index,
                 iteration, vorder, losses, optVars, idVars, count>>

\* the epochs are over
Finish ==
  /\ pc = "epoch"
  /\ e = max_epochs
  /\ pc' = "finished"
  /\ UNCHANGED <<batchVars, padVars, h, model, fwdVars, dataVars, loopVars,
                 optVars, idVars, logVars>>

\* for index in ...: batchX = train[0][...]; batchY = train[1][...]
NextBatch ==
  /\ pc = "batch"
  /\ IF order = <<>>
     THEN /\ pc' = "epoch"
          /\ UNCHANGED <<batchVars, index, order, processed>>
     ELSE /\ index' = Head(order)
          /\ order' = Tail(order)
          /\ batchX' = BatchOf(train[1], n_batches, Head(order))
          /\ batchY' = BatchOf(train[2], n_batches, Head(order))
          /\ processed' = [processed EXCEPT ![Head(order)] = @ + 1]
          /\ pc' = "zero_grad"
  /\ UNCHANGED <<padVars, h, model, fwdVars, dataVars, e, iteration, vorder,
                 losses, optVars, idVars, count>>

\* optimizer.zero_grad()
ZeroGrad ==
  /\ pc = "zero_grad"
  /\ grad' = [of |-> {}, clipped |-> FALSE]
  /\ count' = Bump(count, "zero_grad")
  /\ pc' = "padding"
  /\ UNCHANGED <<batchVars, padVars, h, model, fwdVars, dataVars, loopVars,
                 optimizer, idVars, processed>>

\* x, y, lengths, mask = padding(batchX, batchY, 4894, 4894)
TrainPadding ==
  /\ pc = "padding"
  /\ LET r == padding(batchX, batchY, vocab, n_classes)
     IN /\ x' = r.x
        /\ y' = r.y
        /\ lengths' = r.lengths
        /\ mask' = r.mask
  /\ pc' = "forward"
  /\ UNCHANGED <<batchVars, h, model, fwdVars, restVars>>

\* The parameter identities the two EHRNN() of one forward call create
NewGates(first) == first .. (first + 2 * GateParams - 1)

\* outputs, hidden, cost = model(x, y, h, lengths, mask)
TrainForward ==
  /\ pc = "forward"
  /\ \E d \in Draws :
       /\ draw' = d
       /\ trace' = forward(model, model.training, d, x, y, h, lengths, mask)
  /\ gates' = NewGates(nextId)
  /\ nextId' = nextId + 2 * GateParams
  /\ count' = Bump(count, "forward")
  /\ IF trace'.raised
     THEN /\ pc' = "raised"
          /\ UNCHANGED <<outputs, hidden, cost>>
     ELSE /\ pc' = "backward"
          /\ outputs' = trace'.yhat
          /\ hidden' = trace'.hidden_state
          /\ cost' = trace'.cost
  /\ UNCHANGED <<batchVars, padVars, h, model, dataVars, loopVars, optVars,
                 processed>>

\* cost.backward(): the gradient of this cost is added to the .grad of the
\* parameters the cost was computed from
Backward ==
  /\ pc = "backward"
  /\ grad' = [of |-> grad.of \cup {iteration}, clipped |-> FALSE]
  /\ count' = Bump(count, "backward")
  /\ pc' = "clip"
  /\ UNCHANGED <<batchVars, padVars, h, model, fwdVars, dataVars, loopVars,
                 optimizer, idVars, processed>>

\* nn.utils.clip_grad_norm_(model.parameters(), 5)
ClipGrad ==
  /\ pc = "clip"
  /\ grad' = [grad EXCEPT !.clipped = TRUE]
  /\ count' = Bump(count, "clip")
  /\ pc' = "step"
  /\ UNCHANGED <<batchVars, padVars, h, model, fwdVars, dataVars, loopVars,
                 optimizer, idVars, processed>>

\* optimizer.step(): Adadelta moves every parameter it was given that has
\* a gradient; the values it reaches are not computed, any of ParamChoices
\* may result
OptimizerStep ==
  /\ pc = "step"
  /\ IF grad.of = {}
     THEN model' = model
     ELSE \E p \in ParamChoices : model' = WithMode(p, model.training)
  /\ count' = Bump(count, "step")
  /\ pc' = "log"
  /\ UNCHANGED <<batchVars, padVars, h, fwdVars, dataVars, loopVars, optVars,
                 idVars, processed>>

\* loss_all.append(cost.item()); iteration += 1; if iteration % 10 == 0:
\* (the values of loss_all are only printed and are not kept)
Log ==
  /\ pc = "log"
  /\ iteration' = iteration + 1
  /\ pc' = IF (iteration + 1) % ValidateEvery = 0 THEN "eval" ELSE "batch"
  /\ UNCHANGED <<batchVars, padVars, h, model, fwdVars, dataVars, e, order,
                 index, vorder, losses, optVars, idVars, logVars>>

\* losses = []; model.eval(); for index in random.sample(...)
StartValidation ==
  /\ pc = "eval"
  /\ losses' = <<>>
  /\ model' = [model EXCEPT !.training = EvalMode]
  /\ vorder' \in Shuffles(n_batches_valid)
  /\ pc' = "vbatch"
  /\ UNCHANGED <<batchVars, padVars, h, fwdVars, dataVars, e, order, index,
                 iteration, optVars, idVars, logVars>>

\* validX = valid[0][...]; validY = valid[1][...];
\* x, y, lengths, mask = padding(validX, validY, 4894, 4894)
ValidPadding ==
  /\ pc = "vbatch"
  /\ vorder # <<>>
  /\ index' = Head(vorder)
  /\ vorder' = Tail(vorder)
  /\ LET r == padding(BatchOf(valid[1], n_batches_valid, Head(vorder)),
                      BatchOf(valid[2], n_batches_valid, Head(vorder)),
                      vocab, n_classes)
     IN /\ x' = r.x
        /\ y' = r.y
        /\ lengths' = r.lengths
        /\ mask' = r.mask
  /\ pc' = "vforward"
  /\ UNCHANGED <<batchVars, h, model, fwdVars, dataVars, e, order, iteration,
                 losses, optVars, idVars, logVars>>

\* outputs, hidden_val, cost_val = model(x, y, h, lengths, mask);
\* losses.append(cost_val)
ValidForward ==
  /\ pc = "vforward"
  /\ \E d \in Draws :
       /\ draw' = d
       /\ trace' = forward(model, model.training, d, x, y, h, lengths, mask)
  /\ gates' = NewGates(nextId)
  /\ nextId' = nextId + 2 * GateParams
  /\ IF trace'.raised
     THEN /\ pc' = "raised"
          /\ UNCHANGED <<outputs, losses>>
     ELSE /\ pc' = "vbatch"
          /\ outputs' = trace'.yhat
          /\ losses' = Append(losses, trace'.cost)
  /\ UNCHANGED <<batchVars, padVars, h, model, hidden, cost, dataVars, e,
                 order, index, iteration, vorder, optVars, logVars>>

\* The end of validation without model.train()
EndValidation_StaysInEval ==
  /\ pc = "vbatch"
  /\ vorder = <<>>
  /\ count' = Bump(count, "validation")
  /\ pc' = "batch"
  /\ UNCHANGED <<batchVars, padVars, h, model, fwdVars, dataVars, loopVars,
                 optVars, idVars, processed>>

\* model.train(); print(...)
EndValidation ==
  /\ pc = "vbatch"
  /\ vorder = <<>>
  /\ model' = [model EXCEPT !.training = TrainMode]
  /\ count' = Bump(count, "validation")
  /\ pc' = "batch"
  /\ UNCHANGED <<batchVars, padVars, h, fwdVars, dataVars, loopVars, optVars,
                 idVars, processed>>

Next ==
  \/ StartEpoch
  \/ Finish
  \/ NextBatch
  \/ ZeroGrad
  \/ TrainPadding
  \/ TrainForward
  \/ Backward
  \/ ClipGrad
  \/ OptimizerStep
  \/ Log
  \/ StartValidation
  \/ ValidPadding
  \/ ValidForward
  \/ EndValidation

Spec == Init /\ [][Next]_vars

---------------------------------------------------------------------------
(* Properties of padding, under SpecPadding                                *)

\* C1: for every sample i of a padded batch, the timesteps t with
\* mask[t, i] = 1 are exactly the first len(seqs[i]) - 1 timesteps, there are
\* len(seqs[i]) - 1 of them, and every other mask entry of the sample is 0.
C1_MaskIsAllButLastPrefix ==
  pc = "padded" =>
    /\ Len(lengths) = Len(batchX)
    /\ \A i \in 1 .. Len(batchX) :
         /\ lengths[i] = Len(batchX[i]) - 1
         /\ Len(mask) >= Len(batchX[i]) - 1
         /\ Cardinality({t \in 1 .. Len(mask) : mask[t][i] = 1}) = Len(batchX[i]) - 1
         /\ \A t \in 1 .. Len(mask) :
              mask[t][i] = IF t <= Len(batchX[i]) - 1 THEN 1 ELSE 0

\* A padded batch of two records of different lengths: at one timestep the
\* shorter is masked out and the longer is not.
C1_Witness ==
  /\ pc = "padded"
  /\ \E i, j \in 1 .. Len(batchX) :
       /\ 2 <= Len(batchX[i])
       /\ Len(batchX[i]) < Len(batchX[j])
       /\ \E t \in 1 .. Len(mask) : mask[t][i] = 0 /\ mask[t][j] = 1
       /\ mask[1][i] = 1

\* C3: for every sample i, timestep t < len(seqs[i]) - 1 and code c,
\* x[t, i, c] = 1 exactly when c is in visit t of seqs[i] and y[t, i, c] = 1
\* exactly when c is in visit t + 1 of labels[i]; from timestep
\* len(seqs[i]) - 1 on, x[t, i, :] and y[t, i, :] are all zero.  (Timesteps
\* count from 0 in the claim and from 1 here.)
C3_TeacherShift ==
  pc = "padded" =>
    /\ Len(x) = Len(y)
    /\ \A t \in 1 .. Len(x), i \in 1 .. Len(batchX), c \in Codes :
         IF t <= Len(batchX[i]) - 1
         THEN /\ x[t][i][c + 1] = IF c \in Range(batchX[i][t]) THEN 1 ELSE 0
              /\ y[t][i][c + 1] = IF c \in Range(batchY[i][t + 1]) THEN 1 ELSE 0
         ELSE x[t][i][c + 1] = 0 /\ y[t][i][c + 1] = 0

\* A padded batch where a label differs from the input at a valid timestep
\* and another sample has a padded timestep.
C3_Witness ==
  /\ pc = "padded"
  /\ \E i, j \in 1 .. Len(batchX) :
       /\ \E t \in 1 .. Len(x), c \in Codes :
            /\ t <= Len(batchX[i]) - 1
            /\ y[t][i][c + 1] = 1
            /\ x[t][i][c + 1] = 0
            /\ c \notin Range(batchY[i][t])
       /\ Len(batchX[j]) - 1 < Len(x)

---------------------------------------------------------------------------
(* Properties of one forward call, under SpecForward                       *)

\* The mask with every entry set to 0
ZeroMask == Tab(Len(mask), LAMBDA t : Tab(Len(mask[t]), LAMBDA b : 0))

\* A [time, batch, code] tensor of 0/1 with the entry at (t, b, c) flipped
FlipAt(A, t, b, c) == [A EXCEPT ![t][b][c] = 1 - @]

\* C2: masked positions never contribute to the loss: the cost of the call
\* made with an all-zero mask is zero, and changing the label, or the input
\* the prediction is computed from, at a position (t, b) whose mask entry is
\* 0 does not change the cost.
C2_MaskedPositionsDoNotCount ==
  pc = "done" =>
    /\ forward(model, model.training, draw, x, y, h, lengths, ZeroMask).cost
         = [kind |-> "finite", micro |-> 0]
    /\ \A t \in 1 .. Len(mask) : \A b \in 1 .. Len(mask[t]), c \in 1 .. numClass :
         mask[t][b] = 0 =>
           /\ forward(model, model.training, draw, x, FlipAt(y, t, b, c), h,
                      lengths, mask).cost = cost
           /\ forward(model, model.training, draw, FlipAt(x, t, b, c), y, h,
                      lengths, mask).cost = cost

\* C5: in every forward call the hidden state fed to the GRU cell at the
\* first timestep of each of the two layers is the all-zero
\* [batchSize, hiddenDimSize] tensor, and what the call returns is the same
\* whatever h the caller passes, the hidden state an earlier call left
\* included.
C5_HiddenStartsAtZero ==
  pc = "done" =>
    /\ \A l \in 1 .. 2 :
         /\ Len(trace.h0[l]) = batchSize
         /\ \A b \in 1 .. batchSize :
              /\ Len(trace.h0[l][b]) = hiddenDimSize
              /\ \A j \in 1 .. hiddenDimSize : trace.h0[l][b][j] = 0
    /\ \A h2 \in HChoices \cup {hidden[Len(hidden)]} :
         LET again == forward(model, model.training, draw, x, y, h2, lengths, mask)
         IN /\ again.yhat = outputs
            /\ again.hidden_state = hidden
            /\ again.cost = cost

\* A call made with a non-zero h on a batch of two or more timesteps whose
\* hidden states are not all zero.
C5_Witness ==
  /\ pc = "done"
  /\ \E b \in 1 .. batchSize, j \in 1 .. hiddenDimSize : h[b][j] # 0
  /\ Len(hidden) >= 2
  /\ \E t \in 1 .. Len(hidden), b \in 1 .. batchSize, j \in 1 .. hiddenDimSize :
       trace.hs[1][t][b][j] # 0 /\ trace.hs[2][t][b][j] # 0

\* C6: for every timestep t and sample b with mask[t, b] = 1 the values
\* yhat[t, b, :] sum to 1 over the codes; for every (t, b) with
\* mask[t, b] = 0 they are all zero.
C6_SoftmaxOverCodes ==
  pc = "done" =>
    \A t \in 1 .. Len(outputs) : \A b \in 1 .. Len(outputs[t]) :
      IF mask[t][b] = 1
      THEN FracSum(outputs[t][b]) = <<1, 1>>
      ELSE \A c \in 1 .. numClass : outputs[t][b][c] = <<0, 1>>

---------------------------------------------------------------------------
(* Properties of the training cell, under Spec                             *)

\* The control points at which outputs, hidden, cost and trace are those of
\* a forward call on the x, y, lengths and mask at hand
ForwardIsCurrent == trace # Empty /\ pc \notin {"forward", "vforward", "raised"}

\* C4: the gate parameters (W_z, W_r, W_h, U_z, U_r, U_h, b_z, b_r, b_h of
\* both layers) a training forward pass has used are parameters the
\* optimizer updates, so that the next pass uses what the step produced.
C4_GatesAreOptimized ==
  pc = "backward" => gates \subseteq optimizer.params

\* C7: the yhat a forward call returns for a padded batch has the shape of
\* the label tensor y, [maxlen, n_samples, numClass].
C7_YhatHasShapeOfY ==
  ForwardIsCurrent =>
    /\ Len(outputs) = Len(y)
    /\ Len(outputs) = SeqMax(lengths)
    /\ \A t \in 1 .. Len(outputs) :
         /\ Len(outputs[t]) = Len(y[t])
         /\ Len(outputs[t]) = Len(lengths)
         /\ \A b \in 1 .. Len(outputs[t]) :
              /\ Len(outputs[t][b]) = Len(y[t][b])
              /\ Len(outputs[t][b]) = numClass

\* A training forward call on a batch of two timesteps with a padded sample
C7_Witness ==
  /\ pc = "backward"
  /\ Len(outputs) >= 2
  /\ \E b \in 1 .. Len(lengths) : lengths[b] < Len(outputs)

\* C8: in every forward call of the training and validation loops the
\* hidden state of both layers has, at every timestep, the shape
\* [batch, hidden] with batch the number of samples of the batch, every
\* batch the loops slice holding exactly batchSize samples; no call raises.
C8_HiddenShapeIsStable ==
  /\ pc # "raised"
  /\ lengths # Empty => Len(lengths) = batchSize
  /\ ForwardIsCurrent =>
       \A l \in 1 .. 2 :
         /\ Len(trace.hs[l]) = Len(x)
         /\ Len(trace.h0[l]) = Len(lengths)
         /\ \A t \in 1 .. Len(trace.hs[l]) :
              /\ Len(trace.hs[l][t]) = Len(lengths)
              /\ \A b \in 1 .. Len(trace.hs[l][t]) :
                   Len(trace.hs[l][t][b]) = hiddenDimSize

\* A validation forward call, and a training set whose size is not a
\* multiple of batchSize
C8_Witness ==
  /\ pc = "vbatch"
  /\ losses # <<>>
  /\ Len(train[1]) % batchSize # 0
  /\ Len(valid[1]) % batchSize # 0
  /\ Len(trace.hs[2]) >= 2

\* C9: in every epoch each batch index in 0 .. n_batches-1 is processed
\* exactly once, and for each batch the steps come in the order zero
\* gradients, forward, backward, clipping, optimizer step, with one
\* optimizer step per batch, made on the clipped gradient of that batch.
C9_OneOrderedStepPerBatch ==
  pc # "raised" /\ count # Empty =>
    /\ count.step <= count.clip
    /\ count.clip <= count.backward
    /\ count.backward <= count.forward
    /\ count.forward <= count.zero_grad
    /\ count.zero_grad <= count.step + 1
    /\ count.step = IF pc = "log" THEN iteration + 1 ELSE iteration
    /\ pc = "zero_grad" => count.zero_grad = iteration
    /\ pc = "padding" => count.zero_grad = iteration + 1 /\ count.forward = iteration
    /\ pc = "backward" => count.forward = iteration + 1 /\ count.backward = iteration
    /\ pc = "clip" => count.backward = iteration + 1 /\ count.clip = iteration
    /\ pc = "step" =>
         /\ count.clip = iteration + 1
         /\ grad.clipped
         /\ grad.of = {iteration}
    /\ e >= 1 =>
         /\ DOMAIN processed = 0 .. (n_batches - 1)
         /\ \A i \in DOMAIN processed : processed[i] <= 1
         /\ \A i \in DOMAIN processed : processed[i] = 0 <=> i \in Range(order)
         /\ pc = "epoch" => \A i \in DOMAIN processed : processed[i] = 1
         /\ pc \in {"batch", "epoch", "finished"} =>
              iteration = (e - 1) * n_batches
                            + Cardinality({i \in DOMAIN processed : processed[i] = 1})

\* The end of a run of several epochs of two batches each
C9_Witness ==
  /\ pc = "finished"
  /\ n_batches = 2
  /\ count.step = 2 * max_epochs
  /\ \A i \in 0 .. 1 : processed[i] = 1

\* C10: validation runs exactly after the training steps whose iteration
\* count is a multiple of 10; during validation the model is in eval mode
\* (dropout is the identity) and there is no optimizer step nor gradient
\* zeroing; every training forward pass runs in train mode.
C10_ValidationEveryTen ==
  count # Empty =>
    /\ pc \in {"eval", "vbatch", "vforward"} =>
         /\ iteration > 0
         /\ iteration % 10 = 0
         /\ count.validation = (iteration \div 10) - 1
         /\ count.step = iteration
         /\ count.zero_grad = iteration
    /\ pc \in {"vbatch", "vforward"} => ~model.training
    /\ pc = "vbatch" /\ losses # <<>> =>
         /\ trace.hidden_state = trace.hs[2]
         /\ losses[Len(losses)] = trace.cost
    /\ pc \notin {"eval", "vbatch", "vforward"} =>
         /\ count.validation = iteration \div 10
         /\ model.training
    /\ pc = "backward" => hidden = Dropout(TRUE, draw.drop[2], trace.hs[2])

\* A training forward pass made after a validation
C10_Witness ==
  /\ pc = "backward"
  /\ count.validation >= 1
  /\ model.training
  /\ \E t \in 1 .. Len(hidden), b \in 1 .. batchSize, j \in 1 .. hiddenDimSize :
       hidden[t][b][j] # trace.hs[2][t][b][j]

===========================================================================
